---- MODULE Spec2Model ----
(***************************************************************************)
(* The federated collective coordinator of plugin/federated/               *)
(* federated_server.cc: FederatedService::Handle (the two-phase barrier    *)
(* over mutex_ / cv_) and the three request functors (Allgather,           *)
(* Allreduce, Broadcast).                                                  *)
(*                                                                         *)
(* Buffers are sequences of bytes (0..255), as std::string holds them.     *)
(* Multi-byte elements are little-endian and are added and compared byte   *)
(* by byte, so 32- and 64-bit elements keep their width.                   *)
(***************************************************************************)
EXTENDS Integers, Sequences, FiniteSets, TLC

(***************************************************************************)
(* Bounds of the model.                                                    *)
(***************************************************************************)
\* largest world_size a FederatedService is constructed with
MaxWorld == 3
\* requests carry sequence numbers 0..MaxRound
MaxRound == 1
\* how often one client may issue the call of one of its slots (retries)
MaxAttempts == 2

(***************************************************************************)
(* Program constants.                                                      *)
(***************************************************************************)
SizeofChar == 1
SizeofInt == 4
SizeofLong == 8
ByteRange == 256

Min(a, b) == IF a < b THEN a ELSE b

(***************************************************************************)
(* std::string operations used by the functors.                            *)
(***************************************************************************)
\* std::string::resize(n): keeps the prefix, value-initialises what is added
Resize(buffer, n) == [i \in 1..n |-> IF i <= Len(buffer) THEN buffer[i] ELSE 0]

\* mutant: str is inserted at pos and nothing is removed
ReplaceInserts(buffer, pos, len, str) ==
  SubSeq(buffer, 1, pos) \o str \o SubSeq(buffer, pos + 1, Len(buffer))

\* std::string::replace(pos, len, str) for pos <= size(): the characters
\* [pos, pos + min(len, size - pos)) are replaced by str
Replace(buffer, pos, len, str) ==
  LET n == Min(len, Len(buffer) - pos)
  IN  SubSeq(buffer, 1, pos) \o str \o SubSeq(buffer, pos + n + 1, Len(buffer))

(***************************************************************************)
(* Outcomes of a functor call: the new buffer, an exception, or (for       *)
(* undefined behaviour) the abort of the server process.                   *)
(***************************************************************************)
Ok(buffer) == [tag |-> "ok", buffer |-> buffer]
Throw(what) == [tag |-> "throw", what |-> what]
Abort == [tag |-> "abort"]

(***************************************************************************)
(* AllgatherFunctor::operator()                                            *)
(***************************************************************************)
AllgatherFunctor(world_size_, request, buffer) ==
  LET rank == request.rank
      send_buffer == request.send_buffer
      send_size == Len(send_buffer)
      resized == IF Len(buffer) # send_size * world_size_
                 THEN Resize(buffer, send_size * world_size_)
                 ELSE buffer
  IN  IF rank * send_size > Len(resized)
      THEN {Throw("out_of_range")}
      ELSE {Ok(Replace(resized, rank * send_size, send_size, send_buffer))}

(***************************************************************************)
(* Element types and reduce operations of AllreduceFunctor::Accumulate.    *)
(* char is signed or unsigned as the build has it (charSigned).  float and *)
(* double are IEEE 754 binary32 and binary64; their comparison is          *)
(* modelled, their addition is not (no request of the model carries FLOAT  *)
(* or DOUBLE with SUM).                                                    *)
(***************************************************************************)
DataTypes == {"CHAR", "UCHAR", "INT", "UINT", "LONG", "ULONG", "FLOAT", "DOUBLE",
              "LONGLONG", "ULONGLONG"}
ReduceOperations == {"MAX", "MIN", "SUM"}

SizeOf(data_type) ==
  CASE data_type \in {"CHAR", "UCHAR"} -> SizeofChar
    [] data_type \in {"INT", "UINT", "FLOAT"} -> SizeofInt
    [] OTHER -> SizeofLong

IsSigned(data_type, charSigned) ==
  \/ data_type \in {"INT", "LONG", "LONGLONG"}
  \/ data_type = "CHAR" /\ charSigned

\* signed overflow is undefined for int, long and long long; char operands
\* are promoted to int and converted back, which wraps
OverflowUndefined(data_type) == data_type \in {"INT", "LONG", "LONGLONG"}

\* the element's bytes from index i on, added with carry c, little-endian
RECURSIVE AddFrom(_, _, _, _)
AddFrom(a, b, i, c) ==
  IF i > Len(a) THEN <<>>
  ELSE LET s == a[i] + b[i] + c
       IN  <<s % ByteRange>> \o AddFrom(a, b, i + 1, s \div ByteRange)

\* mutant: the bytes are added one by one, the carry is lost
PlusNoCarry(a, b) == [i \in 1..Len(a) |-> (a[i] + b[i]) % ByteRange]

\* a + b in the element's width (two's complement, wraps)
Plus(a, b) == AddFrom(a, b, 1, 0)

Negative(a) == a[Len(a)] >= ByteRange \div 2

SignedOverflow(a, b) ==
  /\ Negative(a) = Negative(b)
  /\ Negative(Plus(a, b)) # Negative(a)

\* a < b as unsigned numbers, comparing from the most significant byte i down
RECURSIVE LessFrom(_, _, _)
LessFrom(a, b, i) ==
  IF i = 0 THEN FALSE
  ELSE IF a[i] # b[i] THEN a[i] < b[i]
  ELSE LessFrom(a, b, i - 1)

IsFloat(data_type) == data_type \in {"FLOAT", "DOUBLE"}

\* the element without its sign bit
Magnitude(a) == [a EXCEPT ![Len(a)] = a[Len(a)] % (ByteRange \div 2)]

\* the encoding of +infinity: the exponent bits all set (8 for float, 11 for
\* double), the fraction 0
Infinity(w) ==
  [i \in 1..w |->
     IF i = w THEN 127
     ELSE IF i = w - 1 THEN (IF w = SizeofInt THEN 128 ELSE 240)
     ELSE 0]

IsNaN(a) == LessFrom(Infinity(Len(a)), Magnitude(a), Len(a))

IsZero(a) == \A i \in 1..Len(a) : Magnitude(a)[i] = 0

\* a < b for float and double: false when either is a NaN, and for two
\* zeros of any sign; otherwise by sign and magnitude
FloatLess(a, b) ==
  IF IsNaN(a) \/ IsNaN(b) THEN FALSE
  ELSE IF IsZero(a) /\ IsZero(b) THEN FALSE
  ELSE IF Negative(a) # Negative(b) THEN Negative(a)
  ELSE IF Negative(a) THEN LessFrom(Magnitude(b), Magnitude(a), Len(a))
  ELSE LessFrom(Magnitude(a), Magnitude(b), Len(a))

\* mutant: the elements are compared as unsigned numbers
LessUnsigned(a, b, signed, float) == LessFrom(a, b, Len(a))

\* a < b in the element type
Less(a, b, signed, float) ==
  IF float THEN FloatLess(a, b)
  ELSE IF signed /\ Negative(a) # Negative(b)
  THEN Negative(a)
  ELSE LessFrom(a, b, Len(a))

\* a + b rounded to the element's format: some element, not computed
FloatPlus(a, b) == CHOOSE s \in Seq(0..(ByteRange - 1)) : Len(s) = Len(a)

\* std::max(a, b) is (a < b) ? b : a, std::min(a, b) is (b < a) ? b : a
StdMax(a, b, signed, float) == IF Less(a, b, signed, float) THEN b ELSE a
StdMin(a, b, signed, float) == IF Less(b, a, signed, float) THEN b ELSE a

\* element i (from 1) of a buffer of elements of width w
Element(buffer, i, w) == SubSeq(buffer, (i - 1) * w + 1, i * w)

\* the lambda of std::transform for one pair of elements
Combine(a, b, signed, float, reduce_operation) ==
  CASE reduce_operation = "MAX" -> StdMax(a, b, signed, float)
    [] reduce_operation = "MIN" -> StdMin(a, b, signed, float)
    [] reduce_operation = "SUM" -> IF float THEN FloatPlus(a, b) ELSE Plus(a, b)

\* template <class T> Accumulate(T* buffer, T const* input, n, reduce_operation):
\* the n elements are combined in place, the bytes after them stay
AccumulateElements(buffer, input, n, w, signed, float, reduce_operation) ==
  [k \in 1..Len(buffer) |->
     IF k <= n * w
     THEN Combine(Element(buffer, ((k - 1) \div w) + 1, w),
                  Element(input, ((k - 1) \div w) + 1, w),
                  signed, float, reduce_operation)[((k - 1) % w) + 1]
     ELSE buffer[k]]

\* Accumulate(std::string& buffer, std::string const& input, data_type,
\* reduce_operation): the outcomes of the call.  The data type is switched on
\* first, the operation second; both throw before any element is written.
\* Reading input past its end and signed overflow are undefined: the build
\* either aborts the process or goes on (reading zero bytes, wrapping).
Accumulate(buffer, input, data_type, reduce_operation, charSigned) ==
  IF data_type \notin DataTypes THEN {Throw("Invalid data type")}
  ELSE IF reduce_operation \notin ReduceOperations
  THEN {Throw("Invalid reduce operation")}
  ELSE
    LET w == SizeOf(data_type)
        n == Len(buffer) \div w
        signed == IsSigned(data_type, charSigned)
        inp == IF Len(input) < n * w THEN Resize(input, n * w) ELSE input
        undefined ==
          \/ Len(input) < n * w
          \/ /\ reduce_operation = "SUM"
             /\ OverflowUndefined(data_type)
             /\ \E i \in 1..n : SignedOverflow(Element(buffer, i, w), Element(inp, i, w))
    IN  {Ok(AccumulateElements(buffer, inp, n, w, signed, IsFloat(data_type),
                               reduce_operation))}
        \cup (IF undefined THEN {Abort} ELSE {})

(***************************************************************************)
(* AllreduceFunctor::operator()                                            *)
(***************************************************************************)
AllreduceFunctor(request, buffer, charSigned) ==
  IF buffer = <<>>
  THEN {Ok(request.send_buffer)}
  ELSE Accumulate(buffer, request.send_buffer, request.data_type,
                  request.reduce_operation, charSigned)

\* mutant: every rank's payload is copied
BroadcastFunctorAnyRank(request, buffer) == {Ok(request.send_buffer)}

(***************************************************************************)
(* BroadcastFunctor::operator()                                            *)
(***************************************************************************)
BroadcastFunctor(request, buffer) ==
  IF request.rank = request.root
  THEN {Ok(request.send_buffer)}
  ELSE {Ok(buffer)}

(***************************************************************************)
(* The state of a FederatedService and of the calls made on it.            *)
(***************************************************************************)
VARIABLES
  world_size_,       \* FederatedService::world_size_, fixed at construction
  sequence_number_,  \* the round being served
  buffer_,           \* the shared buffer
  received_,         \* requests applied in this round
  sent_,             \* replies filled in this round
  mutex_,            \* the handler holding mutex_, or Free
  notified,          \* handlers waiting on cv_ that a notify_all has woken
  pc,                \* where each handler is in Handle
  request,           \* the request each handler was called with
  reply,             \* reply->receive_buffer of each handler
  status,            \* how each call ended
  attempts,          \* how often each handler's call was issued
  charSigned,        \* whether char is a signed type in this build
  aborted,           \* the server process was aborted (undefined behaviour)
  clients,           \* what the clients of this run send
  quorum,            \* per round, buffer_ when received_ reached world_size_
  arrived,           \* per round, the requests of it applied so far
  departed           \* per round, the replies to its requests filled so far

vars == <<world_size_, sequence_number_, buffer_, received_, sent_, mutex_,
          notified, pc, request, reply, status, attempts, charSigned, aborted,
          clients, quorum, arrived, departed>>

Free == -1
NoBuffer == <<-1>>
NoRequest == [kind |-> "none"]

\* a handler is one gRPC worker thread serving one call; handler h serves
\* rank h % world_size_, and its slot h \div world_size_ is the round it is
\* for when the clients keep to one request per rank and round
AllHandlers == 0..(MaxWorld * (MaxRound + 1) - 1)
Handlers == 0..(world_size_ * (MaxRound + 1) - 1)
RankOf(h) == h % world_size_
SlotOf(h) == h \div world_size_

Waiting == {"admit_wait", "complete_wait"}

(***************************************************************************)
(* The requests a client may send: AllgatherRequest, AllreduceRequest,     *)
(* BroadcastRequest.                                                       *)
(***************************************************************************)
SequenceNumbers(cl, h) ==
  IF cl.anySequence \/ world_size_ = 1 THEN 0..MaxRound ELSE {SlotOf(h)}

\* the rounds the clients of a run take part in
Rounds(cl) == IF cl.oneRound THEN {0} ELSE 0..MaxRound

\* clients that agree on a round call the same collective in it, and name
\* the same root
Agrees(req, other) ==
  \/ other.kind = "none"
  \/ other.sequence_number # req.sequence_number
  \/ /\ other.kind = req.kind
     /\ req.kind = "Broadcast" => other.root = req.root
     /\ req.kind = "Allreduce" => /\ other.data_type = req.data_type
                                  /\ other.reduce_operation = req.reduce_operation

Requests(cl, h) ==
  LET base(kind, n, b) == [kind |-> kind, rank |-> RankOf(h), sequence_number |-> n,
                           send_buffer |-> b]
      all == UNION {
        {base("Allgather", n, b) : b \in cl.gather} \cup
        {base("Allreduce", n, b) @@ [data_type |-> t[1], reduce_operation |-> t[2]]
           : b \in cl.reduce, t \in cl.tags} \cup
        {base("Broadcast", n, b) @@ [root |-> r]
           : b \in cl.broadcast, r \in (0..(world_size_ - 1)) \cup cl.badRoots}
        : n \in SequenceNumbers(cl, h)}
  IN  IF cl.agree
      THEN {req \in all : \A g \in Handlers : Agrees(req, request[g])}
      ELSE all

\* the functor Allgather, Allreduce and Broadcast hand to Handle
Functor(req, buffer) ==
  CASE req.kind = "Allgather" -> AllgatherFunctor(world_size_, req, buffer)
    [] req.kind = "Allreduce" -> AllreduceFunctor(req, buffer, charSigned)
    [] req.kind = "Broadcast" -> BroadcastFunctor(req, buffer)

(***************************************************************************)
(* The service after construction, with the clients cl and world sizes in  *)
(* worlds.                                                                 *)
(***************************************************************************)
InitService(cl, worlds, signs) ==
  /\ world_size_ \in worlds
  /\ sequence_number_ = 0
  /\ buffer_ = <<>>
  /\ received_ = 0
  /\ sent_ = 0
  /\ mutex_ = Free
  /\ notified = {}
  /\ pc = [h \in AllHandlers |-> "idle"]
  /\ request = [h \in AllHandlers |-> NoRequest]
  /\ reply = [h \in AllHandlers |-> NoBuffer]
  /\ status = [h \in AllHandlers |-> "none"]
  /\ attempts = [h \in AllHandlers |-> 0]
  /\ charSigned \in signs
  /\ aborted = FALSE
  /\ clients = cl
  /\ quorum = [n \in 0..MaxRound |-> NoBuffer]
  /\ arrived = [n \in 0..MaxRound |-> 0]
  /\ departed = [n \in 0..MaxRound |-> 0]

(***************************************************************************)
(* The conditions and assignments of Handle.                               *)
(***************************************************************************)
\* mutant: the pass-through is missing
PassThroughNever == FALSE

\* if (world_size_ == 1)
PassThrough == world_size_ = 1

\* mutant: the first wait lets every request through
AdmittedAlways(h) == TRUE

\* mutant: the comparison is <= instead of ==
AdmittedUpTo(h) == request[h].sequence_number <= sequence_number_

\* the predicate of the first wait
Admitted(h) == sequence_number_ = request[h].sequence_number

\* mutant: one request is taken for the whole round
AllReceivedEarly(n) == n >= 1

\* mutant: the comparison is >= instead of ==
AllReceivedAtLeast(n) == n >= world_size_

\* received_ == world_size_, for the count n
AllReceived(n) == n = world_size_

\* mutant: the round is reset when the first waiter has its reply
AllSentEarly == sent_ >= 2

\* mutant: the comparison is off by one
AllSentLate == sent_ > world_size_

\* sent_ == world_size_
AllSent == sent_ = world_size_

\* mutant: the lock is taken although another handler holds it
UnlockedAlways == TRUE

\* mutex_ can be locked: no handler holds it
Unlocked == mutex_ = Free

\* mutant: the exception leaves the mutex locked
UnwoundLocked(h) == h

\* the holder of mutex_ after an exception has left Handle: the destructor of
\* the std::unique_lock unlocks
Unwound(h) == Free

\* mutant: notify_all wakes nobody
WokenNone == {}

\* the handlers a notify_all wakes: those waiting on cv_
Woken == {w \in Handlers : pc[w] \in Waiting}

\* mutant: the buffer is not cleared
ClearedNot == buffer_

\* buffer_.clear()
Cleared == <<>>

(***************************************************************************)
(* FederatedService::Handle, one action per step between two points where  *)
(* another handler can run.                                                *)
(***************************************************************************)
\* the previous call of this handler's rank, if its client has one to wait for
Previous(h) == IF SlotOf(h) = 0 THEN {} ELSE {h - world_size_}

\* a client's call arrives (the first, or again after a failed one).  With
\* one client the request passes through; otherwise the handler takes the
\* lock: std::unique_lock<std::mutex> lock(mutex_).  The request and reply of
\* the call a blocking client made before are gone by then.
Call(h) ==
  /\ ~aborted
  /\ h \in Handlers
  /\ pc[h] \in {"idle", "failed"}
  /\ attempts[h] < MaxAttempts
  /\ SlotOf(h) \in Rounds(clients)
  /\ <<RankOf(h), SlotOf(h)>> \notin clients.silent
  /\ clients.blocking => \A g \in Previous(h) : pc[g] = "returned"
  /\ \E req \in Requests(clients, h) :
       LET gone == IF clients.blocking THEN Previous(h) ELSE {}
           set(f, new, none) == [g \in AllHandlers |->
                                   IF g = h THEN new ELSE IF g \in gone THEN none ELSE f[g]]
       IN  /\ request' = set(request, req, NoRequest)
           /\ attempts' = set(attempts, attempts[h] + 1, 0)
           /\ reply' = set(reply, IF PassThrough THEN req.send_buffer ELSE NoBuffer,
                           NoBuffer)
           /\ status' = set(status, IF PassThrough THEN "OK" ELSE "none", "none")
           /\ pc' = set(pc, IF PassThrough THEN "returned" ELSE "admit", "done")
  /\ IF PassThrough
     THEN UNCHANGED mutex_
     ELSE Unlocked /\ mutex_' = h
  /\ UNCHANGED <<world_size_, sequence_number_, buffer_, received_, sent_,
                 notified, charSigned, aborted, clients, quorum, arrived, departed>>

\* cv_.wait(lock, [..] { return sequence_number_ == sequence_number; }): the
\* predicate is evaluated with the lock held; if it is false the handler
\* releases the lock and waits
Admit(h) ==
  /\ ~aborted
  /\ pc[h] = "admit"
  /\ mutex_ = h
  /\ IF Admitted(h)
     THEN /\ pc' = [pc EXCEPT ![h] = "handle"]
          /\ UNCHANGED mutex_
     ELSE /\ pc' = [pc EXCEPT ![h] = "admit_wait"]
          /\ mutex_' = Free
  /\ UNCHANGED <<world_size_, sequence_number_, buffer_, received_, sent_, notified,
                 request, reply, status, attempts, charSigned, aborted, clients, quorum, arrived, departed>>

\* a waiting handler reacquires the lock and goes back to its predicate
Resume(h) ==
  /\ mutex_' = h
  /\ pc' = [pc EXCEPT ![h] = IF pc[h] = "admit_wait" THEN "admit" ELSE "complete"]
  /\ notified' = notified \ {h}
  /\ UNCHANGED <<world_size_, sequence_number_, buffer_, received_, sent_,
                 request, reply, status, attempts, charSigned, aborted, clients, quorum, arrived, departed>>

\* woken by a notify_all
Wake(h) ==
  /\ ~aborted
  /\ pc[h] \in Waiting
  /\ h \in notified
  /\ Unlocked
  /\ Resume(h)

\* woken spuriously
SpuriousWake(h) ==
  /\ ~aborted
  /\ pc[h] \in Waiting
  /\ h \notin notified
  /\ Unlocked
  /\ Resume(h)

\* functor(request, buffer_); received_++; and, when this was the last
\* request of the round, the reply and lock.unlock(); otherwise the second
\* wait, whose predicate is false here.  An exception of the functor leaves
\* Handle and the lock's destructor unlocks.
HandleRequest(h) ==
  /\ ~aborted
  /\ pc[h] = "handle"
  /\ mutex_ = h
  /\ \E out \in Functor(request[h], buffer_) :
       CASE out.tag = "abort" ->
              /\ aborted' = TRUE
              /\ UNCHANGED <<buffer_, received_, sent_, mutex_, pc, reply, status,
                             quorum, arrived, departed>>
         [] out.tag = "throw" ->
              /\ mutex_' = Unwound(h)
              /\ pc' = [pc EXCEPT ![h] = "failed"]
              /\ status' = [status EXCEPT ![h] = out.what]
              /\ UNCHANGED <<buffer_, received_, sent_, reply, aborted, quorum, arrived, departed>>
         [] out.tag = "ok" ->
              /\ buffer_' = out.buffer
              /\ received_' = received_ + 1
              /\ arrived' = [arrived EXCEPT ![request[h].sequence_number] = @ + 1]
              /\ mutex_' = Free
              /\ IF AllReceived(received_ + 1)
                 THEN /\ reply' = [reply EXCEPT ![h] = out.buffer]
                      /\ sent_' = sent_ + 1
                      /\ pc' = [pc EXCEPT ![h] = "notify"]
                      /\ quorum' = [quorum EXCEPT ![request[h].sequence_number] = out.buffer]
                      /\ departed' = [departed EXCEPT ![request[h].sequence_number] = @ + 1]
                 ELSE /\ pc' = [pc EXCEPT ![h] = "complete_wait"]
                      /\ UNCHANGED <<reply, sent_, quorum, departed>>
              /\ UNCHANGED <<status, aborted>>
  /\ UNCHANGED <<world_size_, sequence_number_, notified, request, attempts,
                 charSigned, clients>>

\* cv_.notify_all(); return grpc::Status::OK
Notify(h) ==
  /\ ~aborted
  /\ pc[h] = "notify"
  /\ notified' = notified \cup Woken
  /\ pc' = [pc EXCEPT ![h] = "returned"]
  /\ status' = [status EXCEPT ![h] = "OK"]
  /\ UNCHANGED <<world_size_, sequence_number_, buffer_, received_, sent_, mutex_,
                 request, reply, attempts, charSigned, aborted, clients, quorum, arrived, departed>>

\* cv_.wait(lock, [this] { return received_ == world_size_; }) and then
\* reply->set_receive_buffer(buffer_); sent_++
Complete(h) ==
  /\ ~aborted
  /\ pc[h] = "complete"
  /\ mutex_ = h
  /\ IF AllReceived(received_)
     THEN /\ reply' = [reply EXCEPT ![h] = buffer_]
          /\ sent_' = sent_ + 1
          /\ departed' = [departed EXCEPT ![request[h].sequence_number] = @ + 1]
          /\ pc' = [pc EXCEPT ![h] = "sent"]
          /\ UNCHANGED mutex_
     ELSE /\ pc' = [pc EXCEPT ![h] = "complete_wait"]
          /\ mutex_' = Free
          /\ UNCHANGED <<reply, sent_, departed>>
  /\ UNCHANGED <<world_size_, sequence_number_, buffer_, received_, notified,
                 request, status, attempts, charSigned, aborted, clients, quorum,
                 arrived>>

\* if (sent_ == world_size_) the round is reset and the lock released before
\* notify_all; otherwise Handle returns and the lock's destructor unlocks
Retire(h) ==
  /\ ~aborted
  /\ pc[h] = "sent"
  /\ mutex_ = h
  /\ mutex_' = Free
  /\ IF AllSent
     THEN /\ sent_' = 0
          /\ received_' = 0
          /\ buffer_' = Cleared
          /\ sequence_number_' = sequence_number_ + 1
          /\ pc' = [pc EXCEPT ![h] = "notify"]
          /\ UNCHANGED status
     ELSE /\ pc' = [pc EXCEPT ![h] = "returned"]
          /\ status' = [status EXCEPT ![h] = "OK"]
          /\ UNCHANGED <<sent_, received_, buffer_, sequence_number_>>
  /\ UNCHANGED <<world_size_, notified, request, reply, attempts, charSigned,
                 aborted, clients, quorum, arrived, departed>>

Next ==
  \E h \in AllHandlers :
    \/ Call(h)
    \/ Admit(h)
    \/ Wake(h)
    \/ SpuriousWake(h)
    \/ HandleRequest(h)
    \/ Notify(h)
    \/ Complete(h)
    \/ Retire(h)

(***************************************************************************)
(* The clients of the specifications.                                      *)
(***************************************************************************)
\* Every rank sends one valid request per round and waits for its reply
\* before it sends the next (the synchronous stub); the ranks agree on the
\* call of a round.
BarrierClients ==
  [gather |-> {<<1>>}, reduce |-> {<<2>>}, broadcast |-> {<<3>>},
   tags |-> {<<"UCHAR", "SUM">>}, badRoots |-> {},
   anySequence |-> FALSE, agree |-> TRUE, blocking |-> TRUE, oneRound |-> FALSE,
   silent |-> {}]

Init == InitService(BarrierClients, 1..MaxWorld, {TRUE})

Spec == Init /\ [][Next]_vars

\* The same clients, but a rank may send its request of a later round before
\* its earlier calls have returned.
PipelinedClients == [BarrierClients EXCEPT !.blocking = FALSE]

InitPipelined == InitService(PipelinedClients, 1..MaxWorld, {TRUE})

SpecPipelined == InitPipelined /\ [][Next]_vars

\* Pipelined clients that call Allreduce in every round.
QueuedClients == [PipelinedClients EXCEPT !.gather = {}, !.broadcast = {}]

\* The same, but rank 0 sends no request after the one of round 0.
SilentClients == [QueuedClients EXCEPT !.silent = {<<0, n>> : n \in 1..MaxRound}]

InitSilent == InitService(SilentClients, 2..MaxWorld, {TRUE})

SpecSilent == InitSilent /\ [][Next]_vars

InitQueued == InitService(QueuedClients, 2..MaxWorld, {TRUE})

SpecQueued == InitQueued /\ [][Next]_vars

\* One Allreduce round of SUM over four-byte payloads, the ranks agreeing on
\* the element type.  As int the payloads are 0x400000C8, 0x40000164 and
\* 0xBFFFFF38: the first two overflow int when added, and their bytes
\* overflow char and unsigned char.
SumClients ==
  [gather |-> {}, reduce |-> {<<200, 0, 0, 64>>, <<100, 1, 0, 64>>, <<56, 255, 255, 191>>},
   broadcast |-> {}, tags |-> {"CHAR", "UCHAR", "INT", "UINT"} \X {"SUM"},
   badRoots |-> {}, anySequence |-> FALSE, agree |-> TRUE, blocking |-> TRUE,
   oneRound |-> TRUE,
   silent |-> {}]

InitSum == InitService(SumClients, 2..MaxWorld, BOOLEAN)

SpecSum == InitSum /\ [][Next]_vars

\* One Allreduce round of MAX or MIN over four-byte payloads, the ranks
\* agreeing on the element type.  As float the payloads are a NaN
\* (0x7FC00000), 1.0 (0x3F800000) and -2.0 (0xC0000000); as int the last is
\* negative.
ExtremeClients ==
  [gather |-> {}, reduce |-> {<<0, 0, 192, 127>>, <<0, 0, 128, 63>>, <<0, 0, 0, 192>>},
   broadcast |-> {}, tags |-> {"CHAR", "INT", "UINT", "FLOAT"} \X {"MAX", "MIN"},
   badRoots |-> {}, anySequence |-> FALSE, agree |-> TRUE, blocking |-> TRUE,
   oneRound |-> TRUE,
   silent |-> {}]

InitExtreme == InitService(ExtremeClients, 2..MaxWorld, BOOLEAN)

SpecExtreme == InitExtreme /\ [][Next]_vars

\* One Allgather round with payloads of 0, 1 and 2 bytes.
GatherClients ==
  [gather |-> {<<>>, <<7>>, <<8>>, <<5, 6>>, <<9, 5>>}, reduce |-> {}, broadcast |-> {},
   tags |-> {}, badRoots |-> {}, anySequence |-> FALSE, agree |-> TRUE,
   blocking |-> TRUE, oneRound |-> TRUE,
   silent |-> {}]

InitGather == InitService(GatherClients, 2..MaxWorld, {TRUE})

SpecGather == InitGather /\ [][Next]_vars

\* One Broadcast round, the ranks naming one of them as the root.
BroadcastClients ==
  [gather |-> {}, reduce |-> {}, broadcast |-> {<<3>>, <<4>>, <<5, 6>>},
   tags |-> {}, badRoots |-> {}, anySequence |-> FALSE, agree |-> TRUE,
   blocking |-> TRUE, oneRound |-> TRUE,
   silent |-> {}]

InitBroadcast == InitService(BroadcastClients, 2..MaxWorld, {TRUE})

SpecBroadcast == InitBroadcast /\ [][Next]_vars

\* One Broadcast round in which the ranks may also name a root that is the
\* rank of none of them.
RootlessClients == [BroadcastClients EXCEPT !.badRoots = {MaxWorld, MaxWorld + 1}]

InitRootless == InitService(RootlessClients, 2..MaxWorld, {TRUE})

SpecRootless == InitRootless /\ [][Next]_vars

\* Clients that call Allgather and do not keep to one request per rank and
\* round: a request may carry any sequence number, and rank 0 sends more
\* than one, also with a sequence number it has sent before, without
\* waiting for its earlier calls.  The other ranks send one request each.
DuplicateClients ==
  [PipelinedClients EXCEPT
     !.reduce = {}, !.broadcast = {}, !.anySequence = TRUE,
     !.silent = {<<r, n>> : r \in 1..(MaxWorld - 1), n \in 1..MaxRound}]

InitDuplicate == InitService(DuplicateClients, 2..MaxWorld, {TRUE})

SpecDuplicate == InitDuplicate /\ [][Next]_vars

\* One Allreduce round in which a request may carry an element type or a
\* reduce operation that Accumulate does not know; a client whose call
\* failed may call again.
InvalidClients ==
  [gather |-> {}, reduce |-> {<<1>>}, broadcast |-> {},
   tags |-> {<<"UCHAR", "SUM">>, <<"NONE", "SUM">>, <<"UCHAR", "NONE">>},
   badRoots |-> {}, anySequence |-> FALSE, agree |-> FALSE, blocking |-> TRUE,
   oneRound |-> TRUE,
   silent |-> {}]

InitInvalid == InitService(InvalidClients, 2..MaxWorld, {TRUE})

SpecInvalid == InitInvalid /\ [][Next]_vars

\* The threads of the handlers are scheduled fairly: a handler that can take
\* its next step takes it, and a woken handler is not kept from the mutex
\* for ever.  The handlers concerned are those of each rank's first slot,
\* the only ones that take steps when the clients stop after one round.
Fairness ==
  \A h \in 0..(MaxWorld - 1) :
    /\ WF_vars(Admit(h))
    /\ WF_vars(HandleRequest(h))
    /\ WF_vars(Notify(h))
    /\ WF_vars(Complete(h))
    /\ WF_vars(Retire(h))
    /\ SF_vars(Wake(h))

SpecInvalidFair == InitInvalid /\ [][Next]_vars /\ Fairness

\* The same for every handler, and every client sends the requests it has
\* to send: its call is not kept from the mutex for ever.  A handler is at
\* one place of Handle at a time, so fairness of its next step, whichever
\* it is, is the fairness of each of its steps.
Proceed(h) ==
  Admit(h) \/ HandleRequest(h) \/ Notify(h) \/ Complete(h) \/ Retire(h)

Acquire(h) == Call(h) \/ Wake(h)

FairnessOfAll ==
  \A h \in AllHandlers : WF_vars(Proceed(h)) /\ SF_vars(Acquire(h))

SpecQueuedFair == InitQueued /\ [][Next]_vars /\ FairnessOfAll

(***************************************************************************)
(* Vocabulary of the properties.                                           *)
(***************************************************************************)
Ranks == 0..(world_size_ - 1)
Issued(h) == request[h].kind # "none"
RoundOf(h) == request[h].sequence_number
\* the handlers serving the calls of round n
InRound(n) == {h \in Handlers : Issued(h) /\ RoundOf(h) = n}
\* the handler's request has been applied to the shared buffer and counted
AppliedAt == {"complete_wait", "complete", "sent", "notify", "returned"}
Applied(h) == Issued(h) /\ pc[h] \in AppliedAt
Replied(h) == reply[h] # NoBuffer
\* the call of rank r in round n has returned, and the rank has not called again
Returned(n, r) == \E h \in InRound(n) : RankOf(h) = r /\ pc[h] = "returned"
\* so for every rank
AllReturned(n) == \A r \in Ranks : Returned(n, r)

\* the handler of rank r in round n whose request was applied
HandlerOf(n, r) == CHOOSE h \in InRound(n) : RankOf(h) = r /\ Applied(h)

\* the buffer after the requests of the ranks r, r + 1, .. of round n are
\* applied in rank order to buffer
RECURSIVE InRankOrder(_, _, _)
InRankOrder(n, r, buffer) ==
  IF r = world_size_ THEN buffer
  ELSE LET out == CHOOSE o \in Functor(request[HandlerOf(n, r)], buffer) : o.tag = "ok"
       IN  InRankOrder(n, r + 1, out.buffer)

(***************************************************************************)
(* C1: with world_size W >= 2 and one request per rank and round, a call   *)
(* of round N has a reply only after the requests of all W ranks of round  *)
(* N were applied, and every reply of the round is the shared buffer as it *)
(* stood when the W-th request was applied.                                *)
(***************************************************************************)
C1_RepliesAfterQuorum ==
  world_size_ >= 2 =>
    \A h \in Handlers :
      Replied(h) =>
        /\ arrived[RoundOf(h)] = world_size_
        /\ quorum[RoundOf(h)] # NoBuffer
        /\ reply[h] = quorum[RoundOf(h)]

\* three ranks have all returned from a round
C1_Witness ==
  /\ world_size_ >= 3
  /\ \E n \in 0..MaxRound : AllReturned(n) /\ \A h \in InRound(n) : Replied(h)

(***************************************************************************)
(* C5: a request with a sequence number above the session's is not         *)
(* admitted: its handler stays in the admission wait, it is not applied    *)
(* and not counted; no request of round N+1 is applied before every rank   *)
(* has its reply of round N.                                               *)
(***************************************************************************)
C5_AdmissionAfterRetirement ==
  world_size_ >= 2 =>
    /\ \A h \in Handlers :
         (Issued(h) /\ RoundOf(h) > sequence_number_) =>
           pc[h] \in {"admit", "admit_wait"} /\ ~Replied(h)
    /\ \A n \in 0..MaxRound :
         /\ n > sequence_number_ => arrived[n] = 0
         /\ (n >= 1 /\ arrived[n] > 0) => departed[n - 1] = world_size_
    /\ sequence_number_ <= MaxRound => received_ = arrived[sequence_number_]

\* a request of round N+1 waits for admission while a rank of round N still
\* waits for the round to complete
C5_Witness ==
  /\ world_size_ >= 2
  /\ \E h, g \in Handlers :
       /\ Issued(h) /\ Issued(g)
       /\ pc[h] = "admit_wait" /\ RoundOf(h) = sequence_number_ + 1
       /\ pc[g] = "complete_wait" /\ RoundOf(g) = sequence_number_

(***************************************************************************)
(* C6: once every rank has returned from round N the sequence number has   *)
(* advanced past N, by one for each round; until a request of round N+1 is *)
(* applied the buffer is empty and both counters are 0; and the replies of *)
(* every round are what its own requests give from an empty buffer.        *)
(***************************************************************************)
C6_RoundReuse ==
  world_size_ >= 2 =>
    /\ \A n \in 0..MaxRound :
         /\ sequence_number_ >= n + 1 => departed[n] = world_size_
         /\ (sequence_number_ = n + 1 /\ (n < MaxRound => arrived[n + 1] = 0))
              => buffer_ = <<>> /\ received_ = 0 /\ sent_ = 0
         /\ AllReturned(n) =>
              /\ sequence_number_ = n + 1
              /\ LET expected == InRankOrder(n, 0, <<>>)
                 IN  \A h \in InRound(n) : reply[h] = expected
    /\ sequence_number_ <= MaxRound + 1

\* a second Allreduce round has retired after a first one
C6_Witness ==
  /\ world_size_ >= 2
  /\ AllReturned(1)
  /\ \A h \in InRound(1) : request[h].kind = "Allreduce"
  /\ quorum[0] = quorum[1]

(***************************************************************************)
(* C7: with world_size 1 every call returns the caller's own payload       *)
(* without waiting, whatever its sequence number, and the session state is *)
(* never changed.                                                          *)
(***************************************************************************)
C7_PassThrough ==
  world_size_ = 1 =>
    /\ sequence_number_ = 0 /\ buffer_ = <<>> /\ received_ = 0 /\ sent_ = 0
    /\ mutex_ = Free /\ notified = {}
    /\ \A h \in Handlers :
         /\ pc[h] \in {"idle", "returned", "done"}
         /\ pc[h] = "returned" =>
              reply[h] = request[h].send_buffer /\ status[h] = "OK"

\* a second call, an Allreduce for round 1, has returned
C7_Witness ==
  /\ world_size_ = 1
  /\ \E h \in Handlers :
       /\ h >= 1 /\ pc[h] = "returned"
       /\ request[h].kind = "Allreduce" /\ request[h].sequence_number = 1

(***************************************************************************)
(* Exact arithmetic for the properties: an element is widened by one byte  *)
(* (sign-extended when its type is signed), and widened elements are added *)
(* with carry.  The sum of up to 255 elements of width w fits w + 1 bytes. *)
(***************************************************************************)
Widen(a, signed) == a \o <<IF signed /\ a[Len(a)] >= 128 THEN 255 ELSE 0>>

RECURSIVE CarryAdd(_, _, _, _)
CarryAdd(a, b, i, c) ==
  IF i > Len(a) THEN <<>>
  ELSE <<(a[i] + b[i] + c) % 256>> \o CarryAdd(a, b, i + 1, (a[i] + b[i] + c) \div 256)

\* the widened element fits the element's own width
Fits(x, signed) ==
  LET w == Len(x) - 1
  IN  IF signed
      THEN (x[w + 1] = 0 /\ x[w] < 128) \/ (x[w + 1] = 255 /\ x[w] >= 128)
      ELSE x[w + 1] = 0

\* the payload rank r sent in round n
PayloadOf(n, r) == request[HandlerOf(n, r)].send_buffer

\* the exact sum of element i of the payloads of the ranks in set in round n
RECURSIVE ExactSum(_, _, _, _, _)
ExactSum(n, set, i, w, signed) ==
  IF set = {} THEN [k \in 1..(w + 1) |-> 0]
  ELSE LET r == CHOOSE x \in set : TRUE
       IN  CarryAdd(Widen(Element(PayloadOf(n, r), i, w), signed),
                    ExactSum(n, set \ {r}, i, w, signed), 1, 0)

\* round n is an Allreduce of SUM over one integer type, with payloads of one
\* length that is a multiple of the element width, and every rank has returned
IntegerTypes == {t \in DataTypes : ~IsFloat(t)}
SumRound(n) ==
  /\ world_size_ >= 2
  /\ AllReturned(n)
  /\ \A h \in InRound(n) :
       /\ request[h].kind = "Allreduce"
       /\ request[h].reduce_operation = "SUM"
       /\ request[h].data_type \in IntegerTypes
       /\ Len(request[h].send_buffer) % SizeOf(request[h].data_type) = 0
       /\ \A g \in InRound(n) :
            /\ request[g].data_type = request[h].data_type
            /\ Len(request[g].send_buffer) = Len(request[h].send_buffer)

TypeOfRound(n) == request[HandlerOf(n, 0)].data_type
ElementsOfRound(n) == Len(PayloadOf(n, 0)) \div SizeOf(TypeOfRound(n))

\* no sum of the payloads of some of the ranks overflows where overflow is
\* undefined
SumDefined(n) ==
  OverflowUndefined(TypeOfRound(n)) =>
    \A set \in SUBSET Ranks : \A i \in 1..ElementsOfRound(n) :
      Fits(ExactSum(n, set, i, SizeOf(TypeOfRound(n)), TRUE), TRUE)

(***************************************************************************)
(* C2, as claimed: an Allreduce round of SUM over equal-length integer     *)
(* payloads returns to every rank the element-wise arithmetic sum of the   *)
(* payloads.                                                               *)
(***************************************************************************)
C2_ArithmeticSum ==
  \A n \in 0..MaxRound :
    SumRound(n) =>
      LET t == TypeOfRound(n)
          w == SizeOf(t)
          signed == IsSigned(t, charSigned)
      IN  \A h \in InRound(n) : \A i \in 1..ElementsOfRound(n) :
            Widen(Element(reply[h], i, w), signed) = ExactSum(n, Ranks, i, w, signed)

(***************************************************************************)
(* C2, amended: every rank gets, for every element, the sum of the         *)
(* payloads' elements modulo 2^(8w), w the width of the element type in    *)
(* bytes, whatever the arrival order; for int, long and long long provided *)
(* no partial sum overflows.                                               *)
(***************************************************************************)
C2_ModularSum ==
  \A n \in 0..MaxRound :
    (SumRound(n) /\ SumDefined(n)) =>
      LET t == TypeOfRound(n)
          w == SizeOf(t)
          signed == IsSigned(t, charSigned)
      IN  \A h \in InRound(n) :
            /\ Len(reply[h]) = Len(PayloadOf(n, 0))
            /\ \A i \in 1..ElementsOfRound(n) :
                 Element(reply[h], i, w) = SubSeq(ExactSum(n, Ranks, i, w, signed), 1, w)

\* three ranks have their sum of unsigned chars, and the sum has wrapped
C2_Witness ==
  /\ world_size_ >= 3
  /\ SumRound(0) /\ SumDefined(0)
  /\ TypeOfRound(0) = "UCHAR"
  /\ \E h \in InRound(0) : \E i \in 1..ElementsOfRound(0) :
       Widen(Element(reply[h], i, 1), FALSE) # ExactSum(0, Ranks, i, 1, FALSE)

(***************************************************************************)
(* C3: an Allgather round with payloads of one size s returns to every     *)
(* rank a buffer of s * W bytes whose bytes [r*s, (r+1)*s) are the payload *)
(* of rank r; and a request that is about to be applied changes only the   *)
(* slot of its own rank (in the buffer of s * W zero bytes, when it is the *)
(* first of the round).                                                    *)
(***************************************************************************)
\* round n is an Allgather with payloads of size s and every rank has returned
GatherRound(n, s) ==
  /\ world_size_ >= 2
  /\ AllReturned(n)
  /\ \A h \in InRound(n) :
       request[h].kind = "Allgather" /\ Len(request[h].send_buffer) = s

\* the slot of rank r in a buffer of slots of size s
Slot(buffer, r, s) == SubSeq(buffer, r * s + 1, (r + 1) * s)

C3_GatherLayout ==
  /\ \A n \in 0..MaxRound : \A s \in 0..2 :
       GatherRound(n, s) =>
         \A h \in InRound(n) :
           /\ Len(reply[h]) = s * world_size_
           /\ \A r \in Ranks : Slot(reply[h], r, s) = PayloadOf(n, r)
  /\ \A h \in Handlers :
       (world_size_ >= 2 /\ pc[h] = "handle" /\ request[h].kind = "Allgather"
          /\ Len(buffer_) \in {0, Len(request[h].send_buffer) * world_size_}) =>
         LET s == Len(request[h].send_buffer)
             before == IF buffer_ = <<>> THEN [k \in 1..(s * world_size_) |-> 0]
                       ELSE buffer_
         IN  \A out \in Functor(request[h], buffer_) :
               /\ out.tag = "ok"
               /\ Len(out.buffer) = s * world_size_
               /\ \A r \in Ranks :
                    Slot(out.buffer, r, s) =
                      IF r = RankOf(h) THEN request[h].send_buffer ELSE Slot(before, r, s)

\* three ranks have gathered payloads of two bytes that are not all the same
C3_Witness ==
  /\ world_size_ >= 3
  /\ GatherRound(0, 2)
  /\ \E h \in InRound(0) : Slot(reply[h], 0, 2) # Slot(reply[h], 2, 2)

(***************************************************************************)
(* C4: a Broadcast round in which all ranks name the same root, one of     *)
(* them, returns the root's payload to every rank; the request of another  *)
(* rank leaves the buffer as it is and is counted like any request.        *)
(***************************************************************************)
\* round n is a Broadcast from root and every rank has returned
BroadcastRound(n, root) ==
  /\ world_size_ >= 2
  /\ AllReturned(n)
  /\ \A h \in InRound(n) : request[h].kind = "Broadcast" /\ request[h].root = root

C4_BroadcastRoot ==
  /\ \A n \in 0..MaxRound : \A root \in Ranks :
       BroadcastRound(n, root) =>
         \A h \in InRound(n) : reply[h] = PayloadOf(n, root)
  /\ \A h \in Handlers :
       (world_size_ >= 2 /\ pc[h] = "handle" /\ request[h].kind = "Broadcast"
          /\ request[h].rank # request[h].root) =>
         Functor(request[h], buffer_) = {Ok(buffer_)}
  /\ (world_size_ >= 2 /\ sequence_number_ = 0) =>
       received_ = Cardinality({h \in InRound(0) : Applied(h)})

\* the root was the last of three or more ranks to arrive, and a rank whose
\* payload is another one has the root's payload as its reply
C4_Witness ==
  /\ world_size_ >= 3
  /\ \E h, g \in InRound(0) :
       /\ request[h].kind = "Broadcast" /\ request[h].rank = request[h].root
       /\ pc[h] = "notify" /\ sequence_number_ = 0
       /\ request[g].send_buffer # request[h].send_buffer
       /\ reply[g] = request[h].send_buffer

(***************************************************************************)
(* C8, as claimed: no Allreduce request whose element type or reduce       *)
(* operation is not recognised is ever applied: its call fails.            *)
(***************************************************************************)
ValidTags(req) ==
  req.data_type \in DataTypes /\ req.reduce_operation \in ReduceOperations

Failed(h) ==
  pc[h] = "failed" /\ status[h] \in {"Invalid data type", "Invalid reduce operation"}

C8_InvalidTagsFail ==
  \A h \in Handlers :
    (Issued(h) /\ request[h].kind = "Allreduce" /\ ~ValidTags(request[h])) =>
      pc[h] \in {"admit", "admit_wait", "handle"} \/ Failed(h)

(***************************************************************************)
(* C9, as claimed: no step of a call whose Allreduce request has an        *)
(* unrecognised element type or reduce operation changes received_, sent_, *)
(* sequence_number_ or the shared buffer.                                  *)
(***************************************************************************)
C9_InvalidCallChangesNothing ==
  [][\A h \in Handlers :
       (Issued(h) /\ request[h].kind = "Allreduce" /\ ~ValidTags(request[h])
          /\ pc'[h] # pc[h] /\ request'[h] = request[h])
         => UNCHANGED <<received_, sent_, sequence_number_, buffer_>>]_vars

(***************************************************************************)
(* C10: when the functor of a call throws, the mutex is released and that  *)
(* call alone ends with the error; the failure is not counted, and the     *)
(* ranks whose requests were applied stay in the completion wait.  If the  *)
(* rank whose call failed calls again with a valid request while all other *)
(* ranks wait in the completion wait, every rank gets its reply.           *)
(***************************************************************************)
Errors == {"Invalid data type", "Invalid reduce operation"}

C10_ErrorIsLocal ==
  /\ \A h \in Handlers :
       /\ pc[h] = "failed" => mutex_ # h /\ status[h] \in Errors
       /\ status[h] \in Errors => pc[h] = "failed" /\ ~ValidTags(request[h])
       /\ (Applied(h) /\ ~Replied(h)) =>
            pc[h] \in {"complete_wait", "complete"} /\ status[h] = "none"
  /\ mutex_ # Free => pc[mutex_] \in {"admit", "handle", "complete", "sent"}
  /\ sequence_number_ = 0 => received_ = Cardinality({h \in InRound(0) : Applied(h)})

\* a rank whose call failed has called again with a valid request, and every
\* other rank waits for the round to complete
Retried ==
  \E h \in Handlers :
    /\ Issued(h) /\ attempts[h] >= 2 /\ ValidTags(request[h])
    /\ pc[h] \in {"admit", "admit_wait", "handle"}
    /\ \A r \in Ranks \ {RankOf(h)} :
         \E g \in InRound(RoundOf(h)) :
           RankOf(g) = r /\ pc[g] \in {"complete_wait", "complete"}

Completed == AllReturned(0) /\ \A h \in InRound(0) : reply[h] = quorum[0]

C10_FailureAndRetry == []C10_ErrorIsLocal /\ (Retried ~> Completed)

\* a round has completed in which a rank had to call twice
C10_Witness ==
  /\ Completed
  /\ \E h \in InRound(0) : attempts[h] >= 2 /\ status[h] = "OK"

(***************************************************************************)
(* C11: with world_size W >= 2, as long as some rank has no request of     *)
(* round N applied (for ever, if it never sends one), no call of round N   *)
(* has a reply or has returned, the calls of round N whose requests were   *)
(* applied are in the completion wait, sequence_number_ is not past N, and *)
(* every call of a later round is in the admission wait.                   *)
(***************************************************************************)
\* some rank has no request of round n applied
Missing(n) ==
  \E r \in Ranks : \A h \in InRound(n) : RankOf(h) = r => ~Applied(h)

C11_MissingRankBlocks ==
  world_size_ >= 2 =>
    \A n \in 0..MaxRound :
      Missing(n) =>
        /\ sequence_number_ <= n
        /\ \A h \in Handlers :
             /\ (Issued(h) /\ RoundOf(h) = n) =>
                  /\ ~Replied(h) /\ status[h] = "none"
                  /\ pc[h] \in {"admit", "admit_wait", "handle", "complete_wait", "complete"}
                  /\ Applied(h) => pc[h] \in {"complete_wait", "complete"}
             /\ (Issued(h) /\ RoundOf(h) > n) =>
                  ~Replied(h) /\ status[h] = "none" /\ pc[h] \in {"admit", "admit_wait"}

\* rank 0 of three or more has returned from round 0 and sends no more; the
\* requests of round 1 of all other ranks are applied and their calls wait
C11_Witness ==
  /\ world_size_ >= 3
  /\ sequence_number_ = 1
  /\ \A h \in Handlers : RankOf(h) = 0 => pc[h] \in {"idle", "returned"}
  /\ \A q \in Ranks \ {0} :
       \E h \in InRound(1) : RankOf(h) = q /\ pc[h] = "complete_wait"
  /\ received_ = world_size_ - 1

(***************************************************************************)
(* C12: with world_size W >= 2 the handlers between the locking of mutex_  *)
(* and its release (by unlock, by a wait or on return) are at most one,    *)
(* the handler that holds mutex_; every step that reads sequence_number_,  *)
(* buffer_, received_ or sent_ is a step of a handler at such a place, and *)
(* every step that changes one of them is a step of the holder of mutex_.  *)
(***************************************************************************)
\* the places of Handle between lock and unlock, where the shared state is
\* read and written
CriticalSection == {"admit", "handle", "complete", "sent"}

C12_HolderOnly ==
  world_size_ >= 2 => \A h \in Handlers : pc[h] \in CriticalSection <=> mutex_ = h

C12_WritesByHolder ==
  <<sequence_number_, buffer_, received_, sent_>>' #
      <<sequence_number_, buffer_, received_, sent_>> =>
    /\ mutex_ \in Handlers
    /\ pc[mutex_] \in CriticalSection
    /\ pc'[mutex_] # pc[mutex_]
    /\ \A g \in Handlers \ {mutex_} : pc'[g] = pc[g]

C12_MutualExclusion == []C12_HolderOnly /\ [][C12_WritesByHolder]_vars

\* a handler holds the mutex with its request about to be applied while two
\* others wait, one for admission and one for the round to complete
C12_Witness ==
  /\ world_size_ >= 3
  /\ \E h, g, f \in Handlers :
       /\ mutex_ = h /\ pc[h] = "handle" /\ received_ >= 1
       /\ pc[g] = "complete_wait" /\ g \in notified
       /\ pc[f] = "complete_wait" /\ f \notin notified

(***************************************************************************)
(* C13: with world_size W >= 2, every rank sending one valid request for   *)
(* every round 0..MaxRound, in any order and without waiting for earlier   *)
(* replies, and the handlers scheduled fairly, every call returns in the   *)
(* end and sequence_number_ reaches MaxRound + 1.                          *)
(***************************************************************************)
AllDone ==
  /\ sequence_number_ = MaxRound + 1
  /\ \A h \in Handlers : pc[h] = "returned" /\ status[h] = "OK" /\ Replied(h)

C13_NoDeadlock == <>[]AllDone

\* every round has reached its quorum and every call has returned
C13_Witness ==
  /\ world_size_ >= 2
  /\ AllDone
  /\ \A n \in 0..MaxRound : quorum[n] # NoBuffer /\ departed[n] = world_size_

(***************************************************************************)
(* C14: sequence_number_ starts at 0 and never decreases; it changes only  *)
(* in the step that retires a round, by one; received_ and sent_ go back   *)
(* only in that step, and only in that step does a non-empty buffer_       *)
(* become empty otherwise than as the result of a functor applied to a     *)
(* request; the step sets both counters to 0, empties the buffer and is    *)
(* taken only when sent_ is world_size_.                                   *)
(***************************************************************************)
Retirement ==
  /\ sent_ = world_size_
  /\ sequence_number_' = sequence_number_ + 1
  /\ sent_' = 0 /\ received_' = 0 /\ buffer_' = <<>>

C14_Step ==
  /\ sequence_number_' >= sequence_number_
  /\ sequence_number_' # sequence_number_ => Retirement
  /\ (received_' < received_ \/ sent_' < sent_) => Retirement
  /\ (buffer_ # <<>> /\ buffer_' = <<>> /\ received_' # received_ + 1) => Retirement

C14_RetirementOnly == sequence_number_ = 0 /\ [][C14_Step]_vars

\* the second round of three or more ranks has just been retired
C14_Witness ==
  /\ world_size_ >= 3
  /\ sequence_number_ = 2
  /\ received_ = 0 /\ sent_ = 0 /\ buffer_ = <<>>
  /\ \E h \in InRound(1) : pc[h] = "notify"

(***************************************************************************)
(* C15: with world_size W >= 2 and one request per rank and round, always  *)
(* 0 <= sent_ <= received_ <= world_size_, and sent_ > 0 only when         *)
(* received_ = world_size_.                                                *)
(***************************************************************************)
C15_CounterOrder ==
  world_size_ >= 2 =>
    /\ 0 <= sent_ /\ sent_ <= received_ /\ received_ <= world_size_
    /\ sent_ > 0 => received_ = world_size_

\* two of three or more ranks have their reply, in the second round
C15_Witness ==
  /\ world_size_ >= 3
  /\ sequence_number_ = 1
  /\ sent_ = 2 /\ received_ = world_size_
  /\ mutex_ = Free

(***************************************************************************)
(* C16: the handler whose increment makes sent_ equal to world_size_ keeps *)
(* the mutex, resets the round (sent_ and received_ 0, buffer_ empty,      *)
(* sequence_number_ one more), unlocks and then wakes all waiting          *)
(* handlers.  So sent_ is never world_size_ while the mutex is free, and   *)
(* each round is reset once, by a handler of that round.                   *)
(***************************************************************************)
C16_ResetPending ==
  world_size_ >= 2 =>
    /\ sent_ = world_size_ => mutex_ \in Handlers /\ pc[mutex_] = "sent"
    /\ mutex_ = Free => sent_ < world_size_
    /\ \A n \in 0..MaxRound : AllReturned(n) => sequence_number_ > n

C16_Step ==
  world_size_ >= 2 =>
    \A h \in Handlers :
      \* the increment that makes sent_ world_size_ is made after the
      \* completion wait, and the mutex is kept
      /\ (pc'[h] # pc[h] /\ sent_' = world_size_ /\ sent_ # world_size_) =>
           pc[h] = "complete" /\ pc'[h] = "sent" /\ mutex_' = h
      \* the next step of that handler is the reset
      /\ (pc[h] = "sent" /\ pc'[h] # pc[h] /\ sent_ = world_size_) =>
           /\ sent_' = 0 /\ received_' = 0 /\ buffer_' = <<>>
           /\ sequence_number_' = sequence_number_ + 1
           /\ mutex_' = Free /\ pc'[h] = "notify"
      \* the reset of round n is a step of a handler of round n
      /\ (pc'[h] # pc[h] /\ sequence_number_' # sequence_number_) =>
           pc[h] = "sent" /\ RoundOf(h) = sequence_number_ /\ sent_ = world_size_
      \* after the reset (and after the reply of the last arriver) all
      \* waiting handlers are woken
      /\ (pc[h] = "notify" /\ pc'[h] # pc[h]) =>
           /\ pc'[h] = "returned"
           /\ \A w \in Handlers : pc[w] \in Waiting => w \in notified'

C16_ResetByLastDeparture == []C16_ResetPending /\ [][C16_Step]_vars

\* the last of three or more ranks has its reply of round 1 and is about to
\* reset the round
C16_Witness ==
  /\ world_size_ >= 3
  /\ sequence_number_ = 1
  /\ sent_ = world_size_ /\ received_ = world_size_
  /\ \E h \in InRound(1) : pc[h] = "sent" /\ mutex_ = h /\ Replied(h)

(***************************************************************************)
(* C17: the handler whose request makes received_ equal to world_size_     *)
(* does not enter the completion wait: in the same step it takes buffer_   *)
(* as its reply, increments sent_ and unlocks, and its next step is the    *)
(* notify_all with which it returns.  With world_size W >= 2 its increment *)
(* takes sent_ from 0 to 1, while the handler that resets the round comes  *)
(* from the completion wait and its increment was not the first.           *)
(***************************************************************************)
C17_Places ==
  world_size_ >= 2 =>
    \A h \in Handlers :
      /\ pc[h] = "sent" => mutex_ = h /\ sent_ >= 2
      /\ (pc[h] = "notify" /\ RoundOf(h) = sequence_number_) =>
           /\ Replied(h) /\ reply[h] = quorum[RoundOf(h)]
           /\ mutex_ # h /\ sent_ >= 1 /\ received_ = world_size_

C17_Step ==
  world_size_ >= 2 =>
    \A h \in Handlers :
      /\ (pc[h] = "handle" /\ pc'[h] # pc[h] /\ received_' = world_size_) =>
           /\ pc'[h] = "notify"
           /\ reply'[h] = buffer_'
           /\ sent_ = 0 /\ sent_' = 1
           /\ mutex_' = Free
           /\ sequence_number_' = sequence_number_
      /\ (pc[h] = "handle" /\ pc'[h] = "notify") => received_' = world_size_
      /\ (pc[h] = "notify" /\ pc'[h] # pc[h]) =>
           pc'[h] = "returned" /\ sequence_number_' = sequence_number_
      /\ (pc[h] # "sent" /\ pc'[h] = "sent") => pc[h] = "complete" /\ sent_ >= 1
      /\ (pc'[h] # pc[h] /\ sequence_number_' # sequence_number_) => pc[h] = "sent"

C17_LastArriver == []C17_Places /\ [][C17_Step]_vars

\* the last of three or more ranks has just had its request applied: it has
\* its reply and the others are in the completion wait, not yet notified
C17_Witness ==
  /\ world_size_ >= 3
  /\ sent_ = 1 /\ received_ = world_size_ /\ mutex_ = Free
  /\ \E h \in Handlers :
       /\ Issued(h) /\ pc[h] = "notify" /\ RoundOf(h) = sequence_number_
       /\ reply[h] = buffer_
       /\ \A g \in InRound(RoundOf(h)) \ {h} :
            pc[g] = "complete_wait" /\ g \notin notified

(***************************************************************************)
(* The order of the element values, for the properties: an integer element *)
(* of up to four bytes is compared by its value, taken as the value of its *)
(* most significant byte and the value of the bytes below it.              *)
(***************************************************************************)
RECURSIVE LowValue(_, _)
LowValue(a, i) == IF i = 0 THEN 0 ELSE a[i] + 256 * LowValue([k \in 1..(Len(a) - 1) |-> a[k + 1]], i - 1)

HighValue(a, signed) == IF signed /\ a[Len(a)] >= 128 THEN a[Len(a)] - 256 ELSE a[Len(a)]

Below(a, b, signed, float) ==
  IF float THEN FloatLess(a, b)
  ELSE \/ HighValue(a, signed) < HighValue(b, signed)
       \/ /\ HighValue(a, signed) = HighValue(b, signed)
          /\ LowValue(a, Len(a) - 1) < LowValue(b, Len(b) - 1)

\* round n is an Allreduce of MAX or of MIN over one element type, with
\* payloads of one length that is a multiple of the element width, and every
\* rank has returned
ExtremeRound(n) ==
  /\ world_size_ >= 2
  /\ AllReturned(n)
  /\ \A h \in InRound(n) :
       /\ request[h].kind = "Allreduce"
       /\ request[h].reduce_operation \in {"MAX", "MIN"}
       /\ request[h].data_type \in DataTypes
       /\ Len(request[h].send_buffer) % SizeOf(request[h].data_type) = 0
       /\ \A g \in InRound(n) :
            /\ request[g].data_type = request[h].data_type
            /\ request[g].reduce_operation = request[h].reduce_operation
            /\ Len(request[g].send_buffer) = Len(request[h].send_buffer)

OperationOfRound(n) == request[HandlerOf(n, 0)].reduce_operation

\* some payload of round n has a NaN element
HasNaN(n) ==
  /\ IsFloat(TypeOfRound(n))
  /\ \E r \in Ranks : \E i \in 1..ElementsOfRound(n) :
       IsNaN(Element(PayloadOf(n, r), i, SizeOf(TypeOfRound(n))))

\* every element of reply is the largest (MAX) or smallest (MIN) of the
\* elements the payloads of round n have at its place
IsExtreme(n, reply_buffer) ==
  LET t == TypeOfRound(n)
      w == SizeOf(t)
      signed == IsSigned(t, charSigned)
      float == IsFloat(t)
  IN  /\ Len(reply_buffer) = Len(PayloadOf(n, 0))
      /\ \A i \in 1..ElementsOfRound(n) :
           LET e == Element(reply_buffer, i, w)
           IN  /\ \E r \in Ranks : e = Element(PayloadOf(n, r), i, w)
               /\ \A r \in Ranks :
                    IF OperationOfRound(n) = "MAX"
                    THEN ~Below(e, Element(PayloadOf(n, r), i, w), signed, float)
                    ELSE ~Below(Element(PayloadOf(n, r), i, w), e, signed, float)

\* the shared buffer after the first request of a round is that request's
\* payload
FirstIsCopied ==
  (world_size_ >= 2 /\ received_ = 1) =>
    \E h \in InRound(sequence_number_) : Applied(h) /\ buffer_ = request[h].send_buffer

(***************************************************************************)
(* C18, as claimed: the first payload of an Allreduce round is copied, and *)
(* for MAX and MIN the replies hold the element-wise maximum or minimum of *)
(* the payloads and are the same for every order of arrival: the same as   *)
(* for the arrival in rank order.                                          *)
(***************************************************************************)
C18_AnyOrder ==
  /\ FirstIsCopied
  /\ \A n \in 0..MaxRound :
       ExtremeRound(n) =>
         \A h \in InRound(n) :
           IsExtreme(n, reply[h]) /\ reply[h] = InRankOrder(n, 0, <<>>)

(***************************************************************************)
(* C18, amended: the same for the integer element types; for float and     *)
(* double payloads without a NaN the replies hold the element-wise maximum *)
(* or minimum.                                                             *)
(***************************************************************************)
C18_AnyOrderOfNumbers ==
  /\ FirstIsCopied
  /\ \A n \in 0..MaxRound :
       (ExtremeRound(n) /\ ~HasNaN(n)) =>
         \A h \in InRound(n) :
           /\ IsExtreme(n, reply[h])
           /\ ~IsFloat(TypeOfRound(n)) => reply[h] = InRankOrder(n, 0, <<>>)

\* three ranks have the minimum of their three different ints, the negative
\* one of rank 0
C18_Witness ==
  /\ world_size_ >= 3
  /\ ExtremeRound(0)
  /\ TypeOfRound(0) = "INT" /\ OperationOfRound(0) = "MIN"
  /\ \A r, q \in Ranks : r # q => PayloadOf(0, r) # PayloadOf(0, q)
  /\ \A h \in InRound(0) : reply[h] = <<0, 0, 0, 192>>
  /\ PayloadOf(0, 0) = <<0, 0, 0, 192>>

(***************************************************************************)
(* C19, as claimed: in a Broadcast round in which the root that the        *)
(* requests name is the rank of none of them, no call gets a reply or      *)
(* returns.                                                                *)
(***************************************************************************)
C19_NoRootNoReply ==
  \A h \in Handlers :
    (world_size_ >= 2 /\ Issued(h) /\ request[h].kind = "Broadcast"
       /\ request[h].root \notin Ranks) =>
      ~Replied(h) /\ pc[h] \notin {"sent", "notify", "returned"}

(***************************************************************************)
(* C20: a second request of a rank for a round that is not retired is not  *)
(* rejected: it is applied and counted like any request, so received_ is   *)
(* the number of requests applied in the round, not of the ranks they came *)
(* from; and once received_ has passed world_size_ it stays there, the     *)
(* round is never reset and no call leaves the completion wait.            *)
(***************************************************************************)
\* the ranks that have a request of the current round applied
Contributors ==
  {RankOf(h) : h \in {g \in InRound(sequence_number_) : Applied(g)}}

C20_CountsRequests ==
  world_size_ >= 2 =>
    /\ received_ = Cardinality({h \in InRound(sequence_number_) : Applied(h)})
    /\ received_ >= Cardinality(Contributors)
    /\ \A h \in Handlers : status[h] \in {"none", "OK"} /\ pc[h] # "failed"

C20_Step ==
  world_size_ >= 2 =>
    /\ \A h \in Handlers :
         (pc[h] = "handle" /\ pc'[h] # pc[h]) =>
           /\ received_' = received_ + 1
           /\ Ok(buffer_') \in Functor(request[h], buffer_)
    /\ received_ > world_size_ =>
         /\ received_' >= received_
         /\ sequence_number_' = sequence_number_
         /\ sent_' = sent_
         /\ reply' = reply
         /\ \A h \in Handlers :
              pc[h] \in {"complete_wait", "complete"} =>
                pc'[h] \in {"complete_wait", "complete"}

C20_DuplicatesCounted == []C20_CountsRequests /\ [][C20_Step]_vars

\* with two ranks, two requests of rank 0 made the quorum of round 0 before
\* the request of rank 1 was applied: the reply sent lacks the payload of
\* rank 1; then the request of rank 1 took received_ past world_size_, and
\* its call and the first of rank 0 are in the completion wait, woken and
\* back in the wait
C20_Witness ==
  /\ world_size_ = 2
  /\ sequence_number_ = 0
  /\ received_ = 3 /\ sent_ = 1
  /\ Cardinality(Contributors) = 2
  /\ quorum[0] = <<1, 0>> /\ buffer_ = <<1, 1>>
  /\ \E h, g, f \in InRound(0) :
       /\ RankOf(h) = 0 /\ RankOf(g) = 0 /\ RankOf(f) = 1
       /\ pc[h] = "returned" /\ reply[h] = <<1, 0>>
       /\ pc[g] = "complete_wait" /\ pc[f] = "complete_wait"
       /\ notified = {}
  /\ mutex_ = Free

(***************************************************************************)
(* C21: both waits re-check their predicate after every wake-up.  A        *)
(* handler leaves the admission wait for the functor only in a state where *)
(* sequence_number_ is its request's sequence number, and the completion   *)
(* wait for its reply only in a state where received_ is world_size_.  A   *)
(* wake-up itself, and a re-check that finds the predicate false, change   *)
(* neither the session state nor any reply or status, and move no other    *)
(* handler: the woken handler is back in its wait.                         *)
(***************************************************************************)
\* what the handlers share besides the lock
SessionState == <<sequence_number_, buffer_, received_, sent_>>

\* the step is one of handler h alone and changes nothing the calls see
Unnoticed(h) ==
  /\ UNCHANGED <<SessionState, reply, status, request>>
  /\ \A g \in Handlers \ {h} : pc'[g] = pc[g]

C21_Step ==
  world_size_ >= 2 =>
    \A h \in Handlers :
      /\ (pc[h] = "admit_wait" /\ pc'[h] # pc[h]) =>
           pc'[h] = "admit" /\ Unnoticed(h)
      /\ (pc[h] = "complete_wait" /\ pc'[h] # pc[h]) =>
           pc'[h] = "complete" /\ Unnoticed(h)
      /\ (pc[h] = "admit" /\ pc'[h] # pc[h]) =>
           IF sequence_number_ = request[h].sequence_number
           THEN pc'[h] = "handle"
           ELSE pc'[h] = "admit_wait" /\ mutex_' = Free /\ Unnoticed(h)
      /\ (pc[h] = "complete" /\ pc'[h] # pc[h]) =>
           IF received_ = world_size_
           THEN pc'[h] = "sent"
           ELSE pc'[h] = "complete_wait" /\ mutex_' = Free /\ Unnoticed(h)

C21_PredicateGuarded == [][C21_Step]_vars

\* with three ranks, a handler woken from the completion wait of round 0
\* holds the lock and is at its predicate while only two requests have been
\* applied: no notify_all has been called yet, the wake-up was spurious
C21_Witness ==
  /\ world_size_ = 3
  /\ sequence_number_ = 0
  /\ received_ = 2 /\ sent_ = 0
  /\ \E h \in InRound(0) :
       /\ pc[h] = "complete"
       /\ mutex_ = h
       /\ reply[h] = NoBuffer
  /\ \A g \in Handlers : pc[g] \notin {"notify", "returned", "done"}

(***************************************************************************)
(* C22: with two or more ranks, a request whose sequence number is below   *)
(* sequence_number_ is never admitted.  sequence_number_ never decreases,  *)
(* so from the moment the request is below it the call stays at the        *)
(* admission wait: it gets no reply and no status, and none of its steps   *)
(* changes the session state.                                              *)
(***************************************************************************)
\* the call of h is not admitted yet and its sequence number is in the past
Stale(h) ==
  /\ Issued(h)
  /\ pc[h] \in {"admit", "admit_wait"}
  /\ request[h].sequence_number < sequence_number_

C22_Unanswered ==
  world_size_ >= 2 =>
    \A h \in Handlers : Stale(h) => reply[h] = NoBuffer /\ status[h] = "none"

C22_Step ==
  world_size_ >= 2 =>
    /\ sequence_number_' >= sequence_number_
    /\ \A h \in Handlers :
         Stale(h) =>
           /\ Stale(h)'
           /\ request'[h] = request[h]
           /\ pc'[h] # pc[h] => UNCHANGED SessionState

C22_StaleNeverAdmitted == []C22_Unanswered /\ [][C22_Step]_vars

\* with two ranks, round 0 has retired and both its calls have returned; a
\* later request of rank 0 with sequence number 0 has been through its
\* predicate and waits, and the notify_all of the retirement has reached it
C22_Witness ==
  /\ world_size_ = 2
  /\ sequence_number_ = 1
  /\ departed[0] = 2
  /\ \E h \in InRound(0) :
       /\ RankOf(h) = 0
       /\ Stale(h)
       /\ pc[h] = "admit_wait"
       /\ h \in notified
  /\ \E f, g \in InRound(0) :
       /\ RankOf(f) = 0 /\ RankOf(g) = 1
       /\ pc[f] = "returned" /\ pc[g] = "returned"
       /\ reply[f] = reply[g]

====
